---- MODULE Spec2Model ----
(***************************************************************************)
(* Narwhal: NFS read/write locks (src/narwhal.c).                          *)
(*                                                                         *)
(* A set of processes shares a lock directory.  Each public operation      *)
(* (narwhal_read_lock, narwhal_write_lock, narwhal_unlock) takes the       *)
(* link-based mutex (exclusive_lock), loads and parses the state file,     *)
(* runs request_lock or remove_lock on the parsed client states, rewrites  *)
(* the state file, and releases the mutex (exclusive_unlock).              *)
(***************************************************************************)
EXTENDS Integers, Sequences, FiniteSets, TLC

\* The (host, pid) identities of the cooperating processes.
Procs == {"A", "B", "C"}

\* No process / no owner of lockfile.
NoProc == "none"

\* Narwhal.timeout_sec, in clock ticks of one second.
Timeout == 1

\* The last second of the wall clock the model explores.
MaxTime == 2

\* The most lines the state file holds in the model.
MaxLines == 3

VARIABLES
    state_file,   \* the lines of {lockdir}/state, in file order
    lockfile,     \* the process whose private file lockfile links to, or NoProc
    private,      \* the processes whose private file {host}.{pid} exists
    now,          \* time(NULL), shared by all hosts
    pc,           \* where each process is inside its current call
    op,           \* the public operation of the current (or last) call
    deadline,     \* last_reasonable_time of the current exclusive_lock
    result,       \* the critical section's result, until exclusive_unlock runs
    holds,        \* the mode the caller was granted and has not yet released
    since         \* the second at which that grant was made

vars == <<state_file, lockfile, private, now, pc, op, deadline, result, holds, since>>

----------------------------------------------------------------------------
(* State File Codec *)

\* struct ClientState, the host_name and pid fields taken together as id.
ClientState(id, w, g, t) ==
    [id |-> id, is_write_lock |-> w, is_granted |-> g, time |-> t]

\* One line of the state file, as dump_client_states formats it.
FormatLine(cs) ==
    [id     |-> cs.id,
     mode   |-> IF cs.is_write_lock THEN "W" ELSE "R",
     status |-> IF cs.is_granted THEN "G" ELSE "P",
     time   |-> cs.time]

\* A dump that truncates the state file and writes no line.
dump_client_states_nothing(client_states, n) == << >>

\* dump_client_states: the first n slots of client_states, one line each.
dump_client_states(client_states, n) ==
    [i \in 1..n |-> FormatLine(client_states[i])]

\* The fields of one line, parsed into the slot next_client_state points at.
ParseLine(line) ==
    ClientState(line.id, line.mode = "W", line.status = "G", line.time)

\* The loop of parse_client_states over the lines from line i on.  slots is the
\* client_states buffer, next the index of next_client_state, granted the index
\* granted_state points at (0 for NULL), changed is client_states_changed.
\* granted_state is set when the status field is read, before the time field
\* decides whether the slot is kept, so it may point at a slot that a later
\* line overwrites.
RECURSIVE ParseFrom(_, _, _, _, _, _, _)
ParseFrom(lines, i, slots, next, granted, changed, first_fresh_time) ==
    IF i > Len(lines)
    THEN [client_states         |-> slots,
          n_client_states       |-> next - 1,
          granted_state         |-> granted,
          client_states_changed |-> changed]
    ELSE LET cs      == ParseLine(lines[i])
             slots2  == [slots EXCEPT ![next] = cs]
             granted2 == IF cs.is_granted THEN next ELSE granted
         IN IF cs.time >= first_fresh_time
            THEN ParseFrom(lines, i + 1, slots2, next + 1, granted2, changed,
                           first_fresh_time)
            ELSE ParseFrom(lines, i + 1, slots2, next, granted2, TRUE,
                           first_fresh_time)

\* A parse that never records the granted entry it reads.
parse_client_states_no_granted(lines, t) ==
    [ParseFrom(lines, 1,
               [i \in 1..(Len(lines) + 1) |-> ClientState(NoProc, FALSE, FALSE, 0)],
               1, 0, FALSE, t - Timeout)
        EXCEPT !.granted_state = 0]

\* A parse that takes every entry for fresh.
parse_client_states_keep_stale(lines, t) ==
    ParseFrom(lines, 1,
              [i \in 1..(Len(lines) + 1) |-> ClientState(NoProc, FALSE, FALSE, 0)],
              1, 0, FALSE, 0)

\* parse_client_states: the buffer holds one slot more than the file has lines.
parse_client_states(lines, t) ==
    ParseFrom(lines, 1,
              [i \in 1..(Len(lines) + 1) |-> ClientState(NoProc, FALSE, FALSE, 0)],
              1, 0, FALSE, t - Timeout)

----------------------------------------------------------------------------
(* Request Engine *)

\* The index of the first slot of process p among the first n, or n + 1.
FindClient(client_states, n, p) ==
    IF \E i \in 1..n : client_states[i].id = p
    THEN CHOOSE i \in 1..n :
            /\ client_states[i].id = p
            /\ \A j \in 1..(i - 1) : client_states[j].id # p
    ELSE n + 1

\* A grant decision that looks at the request's mode only, not at the mode of
\* the granted entry.
GrantNowAnyReader(ps, is_write_lock) ==
    \/ ps.granted_state = 0
    \/ ~is_write_lock

\* A grant decision that lets no reader share the lock.
GrantNowExclusive(ps, is_write_lock) ==
    ps.granted_state = 0

\* A grant decision that looks at the first slot instead of the granted one.
GrantNowFirstSlot(ps, is_write_lock) ==
    \/ ps.granted_state = 0
    \/ /\ ~is_write_lock
       /\ ~ps.client_states[1].is_write_lock

\* The grant decision of request_lock.
GrantNow(ps, is_write_lock) ==
    \/ ps.granted_state = 0
    \/ /\ ~is_write_lock
       /\ ~ps.client_states[ps.granted_state].is_write_lock

\* A rejection that first writes back the entries that survived the load.
RejectedRequestDumped(ps, lines) ==
    [result |-> -1, errno |-> "ENOTSUP",
     lines  |-> IF ps.client_states_changed
                THEN [i \in 1..ps.n_client_states |->
                        [id     |-> ps.client_states[i].id,
                         mode   |-> IF ps.client_states[i].is_write_lock THEN "W" ELSE "R",
                         status |-> IF ps.client_states[i].is_granted THEN "G" ELSE "P",
                         time   |-> ps.client_states[i].time]]
                ELSE lines,
     time   |-> 0]

\* request_lock's rejection of a request that does not fit the caller's own
\* entry: errno = ENOTSUP and return -1, before anything is written back.
RejectedRequest(ps, lines) ==
    [result |-> -1, errno |-> "ENOTSUP", lines |-> lines, time |-> 0]

\* A request_lock that grants and reports as request_lock does but leaves the
\* time of the entry it finds as it was.
request_lock_no_renew(p, is_write_lock, ps, lines, t) ==
    LET is_granted == GrantNow(ps, is_write_lock)
        n  == ps.n_client_states
        cs == ps.client_states
        k  == FindClient(cs, n, p)
    IN IF k <= n /\ (cs[k].is_granted \/ cs[k].is_write_lock # is_write_lock)
       THEN RejectedRequest(ps, lines)
       ELSE IF k = n + 1
       THEN [result |-> IF is_granted THEN 1 ELSE 0,
             errno  |-> "0",
             lines  |-> dump_client_states(
                            [cs EXCEPT ![k] = ClientState(p, is_write_lock, is_granted, t)],
                            n + 1),
             time   |-> t]
       ELSE LET changed == ps.client_states_changed \/ is_granted
                cs2 == [cs EXCEPT ![k] = ClientState(p, is_write_lock, is_granted, cs[k].time)]
            IN [result |-> IF is_granted THEN 1 ELSE 0,
                errno  |-> "0",
                lines  |-> IF changed THEN dump_client_states(cs2, n) ELSE lines,
                time   |-> t]

\* request_lock on the parsed state ps at time t: result is -1, 0 or 1, lines
\* is what the state file holds afterwards, time the time stamped on the
\* caller's entry.
request_lock(p, is_write_lock, ps, lines, t) ==
    LET is_granted == GrantNow(ps, is_write_lock)
        n  == ps.n_client_states
        cs == ps.client_states
        k  == FindClient(cs, n, p)
    IN IF k <= n /\ (cs[k].is_granted \/ cs[k].is_write_lock # is_write_lock)
       THEN RejectedRequest(ps, lines)
       ELSE IF k = n + 1
       THEN [result |-> IF is_granted THEN 1 ELSE 0,
             errno  |-> "0",
             lines  |-> dump_client_states(
                            [cs EXCEPT ![k] = ClientState(p, is_write_lock, is_granted, t)],
                            n + 1),
             time   |-> t]
       ELSE LET changed == ps.client_states_changed \/ is_granted \/ cs[k].time # t
                cs2 == [cs EXCEPT ![k] = ClientState(p, is_write_lock, is_granted, t)]
            IN [result |-> IF is_granted THEN 1 ELSE 0,
                errno  |-> "0",
                lines  |-> IF changed THEN dump_client_states(cs2, n) ELSE lines,
                time   |-> t]

\* memmove(client_state, client_state + 1, ...): the slots after k move down
\* by one; the last slot keeps its content.
MoveDown(client_states, n, k) ==
    [i \in DOMAIN client_states |->
        IF i >= k /\ i < n THEN client_states[i + 1] ELSE client_states[i]]

\* The number of slots remove_lock writes back: n_client_states is not
\* decremented after the memmove.
RemovedCount(n) == n

\* A release without an entry that reports success.
NotLockedIgnored(ps, lines) ==
    [result |-> 0, errno |-> "0", lines |-> lines, time |-> 0]

\* remove_lock finds no entry of the caller: errno = ENOTSUP and return -1,
\* before anything is written back.
NotLocked(ps, lines) ==
    [result |-> -1, errno |-> "ENOTSUP", lines |-> lines, time |-> 0]

\* remove_lock on the parsed state ps: result -2 stands for the failed
\* assert(client_state->is_granted), which aborts the process.
remove_lock(p, ps, lines) ==
    LET n  == ps.n_client_states
        cs == ps.client_states
        k  == FindClient(cs, n, p)
    IN IF k = n + 1
       THEN NotLocked(ps, lines)
       ELSE IF ~cs[k].is_granted
       THEN [result |-> -2, errno |-> "SIGABRT", lines |-> lines, time |-> 0]
       ELSE [result |-> 0, errno |-> "0",
             lines  |-> dump_client_states(MoveDown(cs, n, k), RemovedCount(n)),
             time   |-> 0]

----------------------------------------------------------------------------
(* The processes *)

\* No critical section's result is waiting for exclusive_unlock.
NoResult == [result |-> 0, errno |-> "0", time |-> 0]

Init ==
    /\ state_file = << >>
    /\ lockfile = NoProc
    /\ private = {}
    /\ now = 0
    /\ pc = [p \in Procs |-> "idle"]
    /\ op = [p \in Procs |-> "-"]
    /\ deadline = [p \in Procs |-> 0]
    /\ result = [p \in Procs |-> NoResult]
    /\ holds = [p \in Procs |-> "N"]
    /\ since = [p \in Procs |-> 0]

\* The wall clock advances by one second.
Tick ==
    /\ now < MaxTime
    /\ now' = now + 1
    /\ UNCHANGED <<state_file, lockfile, private, pc, op, deadline, result, holds, since>>

\* A caller enters narwhal_read_lock ("R"), narwhal_write_lock ("W") or
\* narwhal_unlock ("U"); the call starts with the first half of exclusive_lock:
\* creat the private file, set last_reasonable_time.
Call(p, o) ==
    /\ pc[p] = "idle"
    /\ op' = [op EXCEPT ![p] = o]
    /\ private' = private \cup {p}
    /\ deadline' = [deadline EXCEPT ![p] = now + Timeout]
    /\ pc' = [pc EXCEPT ![p] = "link"]
    /\ UNCHANGED <<state_file, lockfile, now, result, holds, since>>

\* The critical section p is about to enter keeps the state file within
\* MaxLines: it adds a line only for a process that has none.
WithinMaxLines(p) ==
    \/ op[p] = "U"
    \/ Len(state_file) < MaxLines
    \/ \E i \in 1..Len(state_file) : state_file[i].id = p

\* A link that succeeds although lockfile exists.
LinkOkNotAtomic(p) ==
    /\ pc[p] = "link"
    /\ WithinMaxLines(p)
    /\ lockfile' = p
    /\ pc' = [pc EXCEPT ![p] = "critical"]
    /\ deadline' = [deadline EXCEPT ![p] = 0]
    /\ UNCHANGED <<state_file, private, now, op, result, holds, since>>

\* exclusive_lock: link(private_path, lockfile_path) succeeds.
LinkOk(p) ==
    /\ pc[p] = "link"
    /\ lockfile = NoProc
    /\ WithinMaxLines(p)
    /\ lockfile' = p
    /\ pc' = [pc EXCEPT ![p] = "critical"]
    /\ deadline' = [deadline EXCEPT ![p] = 0]
    /\ UNCHANGED <<state_file, private, now, op, result, holds, since>>

\* A timed-out exclusive_lock that removes the lockfile it waited for.
LinkTimeoutSteals(p) ==
    /\ pc[p] = "link"
    /\ lockfile # NoProc
    /\ now > deadline[p]
    /\ lockfile' = NoProc
    /\ pc' = [pc EXCEPT ![p] = "idle"]
    /\ op' = [op EXCEPT ![p] = "-"]
    /\ deadline' = [deadline EXCEPT ![p] = 0]
    /\ UNCHANGED <<state_file, private, now, result, holds, since>>

\* exclusive_lock: link fails because lockfile exists and, after the sleep, the
\* deadline has passed: the call returns -1 with ETIMEDOUT.  (A failed link
\* before the deadline changes nothing: the loop tries again.)
LinkTimeout(p) ==
    /\ pc[p] = "link"
    /\ lockfile # NoProc
    /\ now > deadline[p]
    /\ pc' = [pc EXCEPT ![p] = "idle"]
    /\ op' = [op EXCEPT ![p] = "-"]
    /\ deadline' = [deadline EXCEPT ![p] = 0]
    /\ UNCHANGED <<state_file, lockfile, private, now, result, holds, since>>

\* What the critical section of process p computes: load_client_states, then
\* request_lock or remove_lock.
CriticalOutcome(p) ==
    LET ps == parse_client_states(state_file, now)
    IN IF op[p] = "U"
       THEN remove_lock(p, ps, state_file)
       ELSE request_lock(p, op[p] = "W", ps, state_file, now)

\* The critical section, with the mutex held.  A failed assert in remove_lock
\* ends the process where it stands.
Critical(p) ==
    /\ pc[p] = "critical"
    /\ LET out == CriticalOutcome(p)
       IN /\ state_file' = out.lines
          /\ IF out.result = -2
             THEN /\ pc' = [pc EXCEPT ![p] = "aborted"]
                  /\ result' = result
                  /\ holds' = [holds EXCEPT ![p] = "N"]
                  /\ since' = [since EXCEPT ![p] = 0]
             ELSE /\ pc' = [pc EXCEPT ![p] = "unlock"]
                  /\ result' = [result EXCEPT ![p] =
                            [result |-> out.result, errno |-> out.errno, time |-> out.time]]
                  /\ UNCHANGED <<holds, since>>
    /\ UNCHANGED <<lockfile, private, now, op, deadline>>

\* exclusive_unlock, then the end of the loop body of the public operation:
\* return -1 on error, return 0 when granted (or released), else spin, which
\* starts the next exclusive_lock.
Unlock(p) ==
    /\ pc[p] = "unlock"
    /\ lockfile' = NoProc
    /\ result' = [result EXCEPT ![p] = NoResult]
    /\ IF result[p].result < 0
       THEN /\ pc' = [pc EXCEPT ![p] = "idle"]
            /\ op' = [op EXCEPT ![p] = "-"]
            /\ private' = private \ {p}
            /\ holds' = [holds EXCEPT ![p] = IF op[p] = "U" THEN "N" ELSE @]
            /\ since' = [since EXCEPT ![p] = IF op[p] = "U" THEN 0 ELSE @]
            /\ UNCHANGED deadline
       ELSE IF op[p] = "U" \/ result[p].result = 1
       THEN /\ pc' = [pc EXCEPT ![p] = "idle"]
            /\ op' = [op EXCEPT ![p] = "-"]
            /\ private' = private \ {p}
            /\ holds' = [holds EXCEPT ![p] = IF op[p] = "U" THEN "N" ELSE op[p]]
            /\ since' = [since EXCEPT ![p] = IF op[p] = "U" THEN 0 ELSE result[p].time]
            /\ UNCHANGED deadline
       ELSE /\ pc' = [pc EXCEPT ![p] = "link"]
            /\ private' = private
            /\ deadline' = [deadline EXCEPT ![p] = now + Timeout]
            /\ UNCHANGED <<op, holds, since>>
    /\ UNCHANGED <<state_file, now>>

\* A well-behaved caller asks for a lock only when it holds none, and releases
\* only a lock it holds.
WellBehaved(p, o) ==
    IF o = "U" THEN holds[p] # "N" ELSE holds[p] = "N"

Next ==
    \/ Tick
    \/ \E p \in Procs : \E o \in {"R", "W", "U"} : WellBehaved(p, o) /\ Call(p, o)
    \/ \E p \in Procs : LinkOk(p)
    \/ \E p \in Procs : LinkTimeout(p)
    \/ \E p \in Procs : Critical(p)
    \/ \E p \in Procs : Unlock(p)

\* Every process calls the three operations as narwhal.h asks it to.
Spec == Init /\ [][Next]_vars

\* The processes of the second specification.
TwoProcs == {"A", "B"}

\* Two processes that call any operation at any time: a second acquire while
\* holding a lock, a release without one.
NextAny ==
    \/ Tick
    \/ \E p \in TwoProcs : \E o \in {"R", "W", "U"} : Call(p, o)
    \/ \E p \in TwoProcs : LinkOk(p)
    \/ \E p \in TwoProcs : LinkTimeout(p)
    \/ \E p \in TwoProcs : Critical(p)
    \/ \E p \in TwoProcs : Unlock(p)

SpecAny == Init /\ [][NextAny]_vars

----------------------------------------------------------------------------
(* Failing system calls *)

\* load_state_text fails (open, fstat, read or close): the failing call sets
\* errno, load_client_states returns -1 and nothing is parsed or written.
LoadFailure(lines) ==
    [result |-> -1, errno |-> "EIO", lines |-> lines, time |-> 0]

\* The critical section of process p calls dump_client_states: request_lock
\* when client_states_changed (the file it would write then differs from the
\* file it loaded), remove_lock whenever it found a Granted entry.
DumpCalled(p) ==
    LET out == CriticalOutcome(p)
    IN /\ out.result >= 0
       /\ op[p] = "U" \/ out.lines # state_file

\* What a failed dump_client_states can leave in the state file: the old
\* content when fopen fails, else the file truncated and any number of the new
\* lines written before fprintf or fclose fails.
DumpFailures(old, new) ==
    {old} \cup {SubSeq(new, 1, k) : k \in 0..Len(new)}

\* A mutex release that forgets the errno it found on entry.
ErrnoAfterUnlockClobbered(base_errno, lockfile_result, private_result) ==
    IF private_result < 0 THEN "ENOENT"
    ELSE IF lockfile_result < 0 THEN "EACCES"
    ELSE "0"

\* errno when exclusive_unlock returns: base_errno if it was not 0, else what
\* the two unlink calls left after errno = 0 (a failing unlink of lockfile sets
\* EACCES, a failing unlink of the private file then sets ENOENT).
ErrnoAfterUnlock(base_errno, lockfile_result, private_result) ==
    IF base_errno # "0" THEN base_errno
    ELSE IF private_result < 0 THEN "ENOENT"
    ELSE IF lockfile_result < 0 THEN "EACCES"
    ELSE "0"

\* The value exclusive_unlock returns: the smaller of the two unlink results.
UnlockResult(lockfile_result, private_result) ==
    IF lockfile_result < private_result THEN lockfile_result ELSE private_result

\* exclusive_lock: creat (or close) of the private file fails, the call
\* returns -1 at once.
CreatFails(p, o) ==
    /\ pc[p] = "idle"
    /\ op' = [op EXCEPT ![p] = o]
    /\ pc' = [pc EXCEPT ![p] = "return"]
    /\ result' = [result EXCEPT ![p] = [result |-> -1, errno |-> "EMFILE", time |-> 0]]
    /\ UNCHANGED <<state_file, lockfile, private, now, deadline, holds, since>>

\* exclusive_lock times out: the call returns -1 with ETIMEDOUT.
LinkTimedOut(p) ==
    /\ pc[p] = "link"
    /\ lockfile # NoProc
    /\ now > deadline[p]
    /\ pc' = [pc EXCEPT ![p] = "return"]
    /\ result' = [result EXCEPT ![p] = [result |-> -1, errno |-> "ETIMEDOUT", time |-> 0]]
    /\ deadline' = [deadline EXCEPT ![p] = 0]
    /\ UNCHANGED <<state_file, lockfile, private, now, op, holds, since>>

\* The critical section ends with a failed load.
CriticalLoadFails(p) ==
    /\ pc[p] = "critical"
    /\ pc' = [pc EXCEPT ![p] = "unlock"]
    /\ result' = [result EXCEPT ![p] =
            [result |-> -1, errno |-> LoadFailure(state_file).errno, time |-> 0]]
    /\ UNCHANGED <<state_file, lockfile, private, now, op, deadline, holds, since>>

\* The critical section ends with a failed dump_client_states.
CriticalDumpFails(p) ==
    /\ pc[p] = "critical"
    /\ DumpCalled(p)
    /\ state_file' \in DumpFailures(state_file, CriticalOutcome(p).lines)
    /\ pc' = [pc EXCEPT ![p] = "unlock"]
    /\ result' = [result EXCEPT ![p] = [result |-> -1, errno |-> "ENOSPC", time |-> 0]]
    /\ UNCHANGED <<lockfile, private, now, op, deadline, holds, since>>

\* exclusive_unlock, where each of the two unlink calls succeeds (0) or fails
\* (-1), then the end of the loop body of the public operation: return -1 when
\* the critical section or the release failed, return 0 when granted (or
\* released), else spin, which starts the next exclusive_lock.
ExclusiveUnlock(p, lockfile_result, private_result) ==
    /\ pc[p] = "unlock"
    /\ lockfile' = IF lockfile_result = 0 THEN NoProc ELSE lockfile
    /\ LET e == ErrnoAfterUnlock(result[p].errno, lockfile_result, private_result)
           gone == IF private_result = 0 THEN private \ {p} ELSE private
       IN IF UnlockResult(lockfile_result, private_result) < 0 \/ result[p].result < 0
          THEN /\ pc' = [pc EXCEPT ![p] = "return"]
               /\ result' = [result EXCEPT ![p] = [result |-> -1, errno |-> e, time |-> 0]]
               /\ private' = gone
               /\ UNCHANGED deadline
          ELSE IF op[p] = "U" \/ result[p].result = 1
          THEN /\ pc' = [pc EXCEPT ![p] = "return"]
               /\ result' = [result EXCEPT ![p] =
                        [result |-> 0, errno |-> e, time |-> result[p].time]]
               /\ private' = gone
               /\ UNCHANGED deadline
          ELSE /\ pc' = [pc EXCEPT ![p] = "link"]
               /\ result' = [result EXCEPT ![p] = NoResult]
               /\ private' = private \cup {p}
               /\ deadline' = [deadline EXCEPT ![p] = now + Timeout]
    /\ UNCHANGED <<state_file, now, op, holds, since>>

\* The public operation returns result[p].result to its caller, with errno as
\* result[p].errno.
Return(p) ==
    /\ pc[p] = "return"
    /\ pc' = [pc EXCEPT ![p] = "idle"]
    /\ op' = [op EXCEPT ![p] = "-"]
    /\ result' = [result EXCEPT ![p] = NoResult]
    /\ holds' = [holds EXCEPT ![p] =
            IF op[p] = "U" THEN "N" ELSE IF result[p].result = 0 THEN op[p] ELSE @]
    /\ since' = [since EXCEPT ![p] =
            IF op[p] = "U" THEN 0 ELSE IF result[p].result = 0 THEN result[p].time ELSE @]
    /\ UNCHANGED <<state_file, lockfile, private, now, deadline>>

\* The process of the third specification.
OneProc == {"A"}

NextIO ==
    \/ Tick
    \/ \E p \in OneProc : \E o \in {"R", "W", "U"} : Call(p, o)
    \/ \E p \in OneProc : \E o \in {"R", "W", "U"} : CreatFails(p, o)
    \/ \E p \in OneProc : LinkOk(p)
    \/ \E p \in OneProc : LinkTimedOut(p)
    \/ \E p \in OneProc : Critical(p)
    \/ \E p \in OneProc : CriticalLoadFails(p)
    \/ \E p \in OneProc : CriticalDumpFails(p)
    \/ \E p \in OneProc : \E lr, pr \in {0, -1} : ExclusiveUnlock(p, lr, pr)
    \/ \E p \in OneProc : Return(p)

\* One process that calls any operation at any time, where any system call of
\* the library may fail.
SpecIO == Init /\ [][NextIO]_vars

----------------------------------------------------------------------------
(* The vocabulary of the properties *)

\* The lines of process p in the state file.
LinesOf(p) == {i \in 1..Len(state_file) : state_file[i].id = p}

\* Line l is not older than timeout_sec.
Fresh(l) == l.time >= now - Timeout

\* The fresh lines of process p in the state file.
FreshLinesOf(p) == {i \in LinesOf(p) : Fresh(state_file[i])}

\* The lines of the state file with status Granted.
GrantedLines == {i \in 1..Len(state_file) : state_file[i].status = "G"}

\* Process p is between the successful return of an acquire call and its
\* release call, and not more than timeout_sec after its grant.
HoldsInTime(p) ==
    /\ holds[p] # "N"
    /\ op[p] # "U"
    /\ now <= since[p] + Timeout

\* Process p is inside the critical section of an acquire call.
Acquiring(p) == pc[p] = "critical" /\ op[p] \in {"R", "W"}

\* Process p is inside the critical section of a release call.
Releasing(p) == pc[p] = "critical" /\ op[p] = "U"

\* The critical section of process p's call is over and the call is about to
\* return success.
ReturnsOK(p) ==
    /\ pc[p] = "unlock"
    /\ \/ op[p] = "U" /\ result[p].result = 0
       \/ op[p] \in {"R", "W"} /\ result[p].result = 1

\* Lines ls hold a line of process p with mode m and status st.
HasLine(ls, p, m, st) ==
    \E i \in 1..Len(ls) : ls[i].id = p /\ ls[i].mode = m /\ ls[i].status = st

----------------------------------------------------------------------------
(* C1 *)

\* C1: two distinct processes that both hold the lock, each within timeout_sec
\* of its grant, both hold it in Read mode.
C1_ReadersOrOneWriter ==
    \A p, q \in Procs :
        (p # q /\ HoldsInTime(p) /\ HoldsInTime(q))
            => (holds[p] = "R" /\ holds[q] = "R")

\* A writer holds the lock in time while another process's request has just
\* been refused in its critical section.
C1_Witness ==
    \E p, q \in Procs :
        /\ p # q
        /\ HoldsInTime(p) /\ holds[p] = "W"
        /\ pc[q] = "unlock" /\ op[q] \in {"R", "W"} /\ result[q].result = 0

----------------------------------------------------------------------------
(* C2 *)

\* C2: whenever the mutex is free, all Granted lines of the state file have
\* the same mode, and a Granted Write line is the only Granted line.
C2_GrantedCompatible ==
    lockfile = NoProc =>
        \A i, j \in GrantedLines :
            /\ state_file[i].mode = state_file[j].mode
            /\ state_file[i].mode = "W" => i = j

\* The mutex is free and the state file holds a Granted Write line next to
\* another process's Pending line.
C2_Witness ==
    /\ lockfile = NoProc
    /\ \E i, j \in 1..Len(state_file) :
        /\ state_file[i].mode = "W" /\ state_file[i].status = "G"
        /\ state_file[j].status = "P" /\ state_file[j].id # state_file[i].id

----------------------------------------------------------------------------
(* C3 *)

\* C3: when a release is about to return OK, the state file holds no line of
\* the releasing process.
C3_ReleasedEntryGone ==
    \A p \in Procs :
        (ReturnsOK(p) /\ op[p] = "U") => LinesOf(p) = {}

----------------------------------------------------------------------------
(* C4 *)

\* C4: when an operation is about to return success, the state file holds at
\* most one line per process.
C4_OneEntryPerProcess ==
    (\E p \in Procs : ReturnsOK(p)) =>
        \A i, j \in 1..Len(state_file) :
            state_file[i].id = state_file[j].id => i = j

----------------------------------------------------------------------------
(* C5 *)

\* C5: the critical section of an acquire-read by a process without a line,
\* run while another process has a fresh Pending Write line, does not grant
\* the request: it records it as Pending.
C5_WriterPreference ==
    \A p \in Procs :
        (/\ Acquiring(p) /\ op[p] = "R"
         /\ LinesOf(p) = {}
         /\ \E i \in 1..Len(state_file) :
                /\ state_file[i].id # p
                /\ state_file[i].mode = "W" /\ state_file[i].status = "P"
                /\ Fresh(state_file[i]))
            => /\ CriticalOutcome(p).result = 0
               /\ HasLine(CriticalOutcome(p).lines, p, "R", "P")

----------------------------------------------------------------------------
(* C6 *)

\* Process a has a fresh Granted Write line in the state file.
FreshWriter(a) ==
    \E i \in FreshLinesOf(a) :
        state_file[i].mode = "W" /\ state_file[i].status = "G"

----------------------------------------------------------------------------
(* C7 *)

\* Every grant has been given back: no process holds a lock, is about to
\* return from a granted acquire, or is inside a release call.
AllReleased ==
    \A q \in Procs :
        /\ holds[q] = "N"
        /\ op[q] # "U"
        /\ ~(pc[q] = "unlock" /\ result[q].result = 1)

\* C7: once every grant has been given back, the critical section of a spinning
\* requester (one with a fresh Pending line of the requested mode) grants its
\* request.
C7_GrantAfterRelease ==
    \A p \in Procs :
        (/\ Acquiring(p)
         /\ AllReleased
         /\ \E i \in FreshLinesOf(p) :
                state_file[i].status = "P" /\ state_file[i].mode = op[p])
            => CriticalOutcome(p).result = 1

----------------------------------------------------------------------------
(* C8 *)

\* The state file holds exactly a fresh Granted Read line of process a.
OneReader(a) ==
    /\ Len(state_file) = 1
    /\ state_file[1].id = a
    /\ state_file[1].mode = "R" /\ state_file[1].status = "G"
    /\ Fresh(state_file[1])

\* The state file holds exactly two fresh Granted Read lines, of a then of b.
TwoReaders(a, b) ==
    /\ Len(state_file) = 2
    /\ state_file[1].id = a /\ state_file[2].id = b
    /\ \A i \in 1..2 :
        /\ state_file[i].mode = "R" /\ state_file[i].status = "G"
        /\ Fresh(state_file[i])

\* C8: next to the single fresh Granted Read line of a, the critical section of
\* b's acquire-read grants the request and leaves a's line and then b's, both
\* Read Granted; and when one of two such readers releases, the other's line
\* stays Granted.
C8_ParallelReaders ==
    \A a, b \in Procs :
        a # b =>
            /\ (Acquiring(b) /\ op[b] = "R" /\ OneReader(a))
                => LET out == CriticalOutcome(b)
                   IN /\ out.result = 1
                      /\ out.lines = <<state_file[1],
                                       [id |-> b, mode |-> "R", status |-> "G", time |-> now]>>
            /\ (TwoReaders(a, b) /\ Releasing(a))
                => /\ CriticalOutcome(a).result = 0
                   /\ HasLine(CriticalOutcome(a).lines, b, "R", "G")
            /\ (TwoReaders(a, b) /\ Releasing(b))
                => /\ CriticalOutcome(b).result = 0
                   /\ HasLine(CriticalOutcome(b).lines, a, "R", "G")

\* One of two readers has just released and the other's line is still Granted.
C8_Witness ==
    \E a, b \in Procs :
        /\ a # b
        /\ ReturnsOK(a) /\ op[a] = "U"
        /\ holds[b] = "R" /\ pc[b] = "idle"
        /\ HasLine(state_file, b, "R", "G")
        /\ \A i \in 1..Len(state_file) : state_file[i].status = "G"

----------------------------------------------------------------------------
(* C9 *)

\* Process p has a fresh Granted line, or a fresh Pending line of another mode
\* than the one it asks for.
Unsupported(p) ==
    \E i \in FreshLinesOf(p) :
        \/ state_file[i].status = "G"
        \/ state_file[i].status = "P" /\ state_file[i].mode # op[p]

\* C9: the critical section of an acquire by a process that has a fresh
\* Granted line, or a fresh Pending line of another mode, fails with ENOTSUP
\* and leaves the state file as it is.
C9_DoubleAcquireRejected ==
    \A p \in Procs :
        (Acquiring(p) /\ Unsupported(p))
            => LET out == CriticalOutcome(p)
               IN /\ out.result = -1
                  /\ out.errno = "ENOTSUP"
                  /\ out.lines = state_file

\* A process that holds the lock is inside the critical section of a second
\* acquire, which is rejected, while the state file holds a stale line that the
\* load drops.
C9_Witness ==
    \E p \in Procs :
        /\ Acquiring(p) /\ Unsupported(p)
        /\ holds[p] # "N"
        /\ CriticalOutcome(p).errno = "ENOTSUP"
        /\ \E i \in 1..Len(state_file) : ~Fresh(state_file[i])

----------------------------------------------------------------------------
(* C10 *)

\* C10: a release by a process without a fresh line in the state file ends its
\* critical section with ENOTSUP and the state file as it was, and then
\* unlinks lockfile and returns.
C10_ReleaseWithoutEntry ==
    [][\A p \in Procs :
        /\ (Releasing(p) /\ FreshLinesOf(p) = {} /\ pc'[p] # pc[p])
            => /\ pc'[p] = "unlock"
               /\ result'[p].result = -1 /\ result'[p].errno = "ENOTSUP"
               /\ state_file' = state_file
        /\ (/\ pc[p] = "unlock" /\ op[p] = "U" /\ result[p].errno = "ENOTSUP"
            /\ pc'[p] # pc[p])
            => /\ pc'[p] = "idle"
               /\ lockfile' = NoProc
               /\ state_file' = state_file]_vars

\* A release by a process without a line has just failed with ENOTSUP.
C10_Witness ==
    \E p \in Procs :
        /\ pc[p] = "unlock" /\ op[p] = "U"
        /\ result[p].result = -1 /\ result[p].errno = "ENOTSUP"
        /\ LinesOf(p) = {}

----------------------------------------------------------------------------
(* C11 *)

\* Process p is inside its acquire critical section without a line of its
\* own, and the only Granted line of the state file is a stale line of
\* another process.
OnlyGrantedIsStale(p) ==
    /\ Acquiring(p)
    /\ LinesOf(p) = {}
    /\ Cardinality(GrantedLines) = 1
    /\ \A i \in GrantedLines : ~Fresh(state_file[i])

\* C11: an acquire critical section that loads a state file whose only
\* Granted line is a stale line of another process drops that line and
\* writes the caller's own line as Granted in this same critical section,
\* which returns "granted".
C11_StaleGrantUnblocks ==
    \A p \in Procs :
        OnlyGrantedIsStale(p)
            => LET out == CriticalOutcome(p)
               IN /\ out.result = 1
                  /\ HasLine(out.lines, p, op[p], "G")
                  /\ \A i \in 1..Len(out.lines) :
                        out.lines[i].time >= now - Timeout

----------------------------------------------------------------------------
(* C12 *)

\* The critical section of process p ends with the result its call returns as
\* success: "granted" for an acquire, 0 for a release.
Succeeds(p) ==
    /\ pc[p] = "critical"
    /\ CriticalOutcome(p).result = (IF op[p] = "U" THEN 0 ELSE 1)

\* C12: the entries a load keeps all have time >= now - timeout_sec, and the
\* state file a successful critical section leaves behind holds no line with
\* time < now - timeout_sec.
C12_ReapComplete ==
    \A p \in Procs :
        pc[p] = "critical"
            => /\ LET ps == parse_client_states(state_file, now)
                  IN \A i \in 1..ps.n_client_states :
                        ps.client_states[i].time >= now - Timeout
               /\ Succeeds(p)
                    => \A i \in 1..Len(CriticalOutcome(p).lines) :
                            CriticalOutcome(p).lines[i].time >= now - Timeout

\* A critical section that loads a stale line ends with success.
C12_Witness ==
    \E p \in Procs :
        /\ Succeeds(p)
        /\ \E i \in 1..Len(state_file) : ~Fresh(state_file[i])

----------------------------------------------------------------------------
(* C13 *)

\* The process whose link created lockfile has terminated on the failed
\* assert of remove_lock: lockfile is abandoned.
Abandoned == \E q \in Procs : lockfile = q /\ pc[q] = "aborted"

\* C13: a process waiting in exclusive_lock leaves it either by its own
\* successful link of an absent lockfile, or, after now > start + timeout_sec,
\* by returning ETIMEDOUT with lockfile and the state file untouched; lockfile
\* is removed only by the process whose link created it, in its own
\* exclusive_unlock; an abandoned lockfile stays, so that no critical section
\* starts any more.
C13_MutexNeverStolen ==
    [][/\ \A p \in Procs :
            (pc[p] = "link" /\ pc'[p] # "link")
                => \/ /\ pc'[p] = "critical"
                      /\ lockfile = NoProc /\ lockfile' = p
                      /\ state_file' = state_file
                   \/ /\ pc'[p] = "idle"
                      /\ now > deadline[p]
                      /\ lockfile # NoProc /\ lockfile' = lockfile
                      /\ state_file' = state_file
       /\ (lockfile # NoProc /\ lockfile' # lockfile)
            => /\ lockfile' = NoProc
               /\ pc[lockfile] = "unlock"
               /\ pc'[lockfile] \in {"idle", "link"}
       /\ Abandoned
            => /\ lockfile' = lockfile
               /\ state_file' = state_file
               /\ \A p \in Procs : pc'[p] # "critical"]_vars

\* A process waiting for an abandoned lockfile has seen its deadline pass: its
\* call is about to fail with ETIMEDOUT.
C13_Witness ==
    \E p \in Procs :
        /\ Abandoned
        /\ pc[p] = "link"
        /\ now > deadline[p]

----------------------------------------------------------------------------
(* C14 *)

\* The errno values of a failed system call of the library, and of a request
\* that request_lock rejects.
ErrorCodes == {"EMFILE", "EIO", "ENOSPC", "EACCES", "ENOENT", "ENOTSUP"}

\* C14: an acquire call returns in one of three ways: 0 after a critical
\* section that answered "granted" and left the caller's line, Granted and of
\* the requested mode, in the state file; -1 with the errno of a failed system
\* call or ENOTSUP; -1 with ETIMEDOUT from exclusive_lock.  A critical section
\* answers "granted" only with that line in the state file, and after the
\* answer "not granted" the call goes back to exclusive_lock unless the
\* release of the mutex fails.
C14_AcquireEnds ==
    [][\A p \in Procs :
        /\ (pc'[p] = "return" /\ pc[p] # "return" /\ op'[p] \in {"R", "W"})
            => \/ /\ result'[p].result = 0
                  /\ pc[p] = "unlock" /\ result[p].result = 1
                  /\ HasLine(state_file, p, op[p], "G")
               \/ /\ result'[p].result = -1
                  /\ result'[p].errno \in ErrorCodes
                  /\ pc[p] \in {"idle", "unlock"}
               \/ /\ result'[p].result = -1
                  /\ result'[p].errno = "ETIMEDOUT"
                  /\ pc[p] = "link" /\ now > deadline[p]
        /\ (pc[p] = "critical" /\ op[p] \in {"R", "W"} /\ pc'[p] = "unlock"
                /\ result'[p].result = 1)
            => HasLine(state_file', p, op[p], "G")
        /\ (pc[p] = "unlock" /\ op[p] \in {"R", "W"} /\ pc'[p] # "unlock")
            => IF result[p].result = 0
               THEN \/ pc'[p] = "link" /\ op'[p] = op[p]
                    \/ /\ pc'[p] = "return"
                       /\ result'[p].result = -1
                       /\ (lockfile' = p \/ p \in private')
               ELSE pc'[p] \in {"return", "idle"}]_vars

\* An acquire call returns 0 with its Granted line in the state file.
C14_Witness ==
    \E p \in Procs :
        /\ pc[p] = "return" /\ op[p] \in {"R", "W"}
        /\ result[p].result = 0
        /\ HasLine(state_file, p, op[p], "G")

----------------------------------------------------------------------------
(* C15 *)

\* Process p is the only client of the lockdir: no other process is inside a
\* call, holds a lock or has a line in the state file.
OnlyClient(p) ==
    \A q \in Procs \ {p} :
        pc[q] = "idle" /\ holds[q] = "N" /\ LinesOf(q) = {}

\* C15: the critical section of an acquire, in either mode, by the only client
\* of the lockdir, which holds no lock (it never held one, or its release has
\* returned), answers "granted".
C15_CycleRepeats ==
    \A p \in Procs :
        (Acquiring(p) /\ holds[p] = "N" /\ OnlyClient(p))
            => CriticalOutcome(p).result = 1

----------------------------------------------------------------------------
(* C16 *)

\* The Granted lines of the state file that survive reaping at the current
\* time.
FreshGrantedLines == {i \in GrantedLines : Fresh(state_file[i])}

\* C16: an acquire critical section that does not reject the request answers
\* "granted" exactly when no line that survives reaping is Granted, or the
\* request is a read and every surviving Granted line is a Read line.
C16_GrantDecision ==
    \A p \in Procs :
        (Acquiring(p) /\ ~Unsupported(p))
            => (CriticalOutcome(p).result = 1
                <=> \/ FreshGrantedLines = {}
                    \/ /\ op[p] = "R"
                       /\ \A i \in FreshGrantedLines : state_file[i].mode = "R")

----------------------------------------------------------------------------
(* C17 *)

\* Process p is between its successful link of lockfile and its unlink of it;
\* a process that terminated inside its critical section stays there.
HoldsMutex(p) == pc[p] \in {"critical", "unlock", "aborted"}

\* C17: at most one process is between its link and its unlink of lockfile;
\* lockfile exists exactly when there is such a process, and is then a link to
\* the existing private file of that process; the state file is loaded and
\* written only in a critical section of the process that lockfile links to.
C17_MutexExclusion ==
    /\ [](/\ Cardinality({p \in Procs : HoldsMutex(p)}) <= 1
          /\ lockfile # NoProc <=> \E p \in Procs : HoldsMutex(p)
          /\ \A p \in Procs : HoldsMutex(p) => lockfile = p /\ p \in private)
    /\ [][/\ state_file' # state_file
            => \E p \in Procs : pc[p] = "critical" /\ pc'[p] # "critical"
          /\ \A p \in Procs :
                (pc[p] = "critical" /\ pc'[p] # "critical")
                    => lockfile = p /\ lockfile' = p]_vars

\* One process is inside its critical section while the other one waits in
\* exclusive_lock for the lockfile.
C17_Witness ==
    \E p, q \in Procs :
        /\ pc[p] = "critical" /\ lockfile = p
        /\ pc[q] = "link"

----------------------------------------------------------------------------
(* C18 *)

\* C18: a process whose public operation is over, by a return or by the
\* failed assertion of remove_lock, has not left lockfile linked.
C18_MutexReleasedAtEnd ==
    \A p \in Procs :
        pc[p] \in {"idle", "return", "aborted"} => lockfile # p

----------------------------------------------------------------------------
(* C19 *)

\* The errno values of the errors raised inside the critical section: a
\* failed load, a failed dump, a rejected request or release.
CriticalErrors == {"EIO", "ENOSPC", "ENOTSUP"}

\* C19: a critical section never returns to the caller directly: it is
\* followed by exclusive_unlock; when the critical section ended with an error,
\* the call returns -1 after exclusive_unlock, whether its unlink calls failed
\* or not, with errno as the critical section left it.
C19_FirstErrorKept ==
    [][\A p \in Procs :
        /\ (pc[p] = "critical" /\ pc'[p] # "critical")
            => pc'[p] \in {"unlock", "aborted"}
        /\ (pc[p] = "unlock" /\ result[p].result < 0)
            => result[p].errno \in CriticalErrors
        /\ (pc[p] = "unlock" /\ result[p].result < 0 /\ pc'[p] # "unlock")
            => /\ pc'[p] = "return"
               /\ result'[p].result = -1
               /\ result'[p].errno = result[p].errno
        /\ (pc'[p] = "return" /\ pc[p] # "return"
                /\ result'[p].errno \in CriticalErrors)
            => pc[p] = "unlock" /\ result[p].result < 0]_vars

\* A call returns the error of its critical section after a release whose
\* unlink of lockfile failed.
C19_Witness ==
    \E p \in Procs :
        /\ pc[p] = "return"
        /\ result[p].result = -1
        /\ result[p].errno \in CriticalErrors
        /\ lockfile = p

----------------------------------------------------------------------------
(* C20 *)

\* The lines of ls that belong to other processes than p and are not stale at
\* the current time, in their order.
ForeignFresh(ls, p) ==
    LET Keep(l) == l.id # p /\ l.time >= now - Timeout
    IN SelectSeq(ls, Keep)

\* C20: the state file a critical section of process p leaves behind holds the
\* fresh lines of the other processes as the loaded file did: the same lines,
\* as many times, in the same order.
C20_ForeignEntriesFramed ==
    \A p \in Procs :
        pc[p] = "critical"
            => ForeignFresh(CriticalOutcome(p).lines, p) = ForeignFresh(state_file, p)

----------------------------------------------------------------------------
(* C21 *)

\* The slot of the entry request_lock finds for process p in the state it
\* loads now, or 0 when it finds none.
FoundSlot(p) ==
    LET ps == parse_client_states(state_file, now)
        k  == FindClient(ps.client_states, ps.n_client_states, p)
    IN IF k <= ps.n_client_states THEN k ELSE 0

\* The acquire critical section of process p finds a Pending entry of p, of the
\* mode p asks for.
FindsOwnPending(p) ==
    /\ Acquiring(p)
    /\ FoundSlot(p) # 0
    /\ LET cs == parse_client_states(state_file, now).client_states[FoundSlot(p)]
       IN ~cs.is_granted /\ cs.is_write_lock = (op[p] = "W")

\* Something changes in the acquire critical section of process p: the load
\* reaps a stale line, the request is granted, or the time of the entry found
\* is not the current time.
SomethingChanges(p) ==
    \/ \E i \in 1..Len(state_file) : ~Fresh(state_file[i])
    \/ CriticalOutcome(p).result = 1
    \/ parse_client_states(state_file, now).client_states[FoundSlot(p)].time # now

\* Every Granted line of lines ls is a line of the state file, or carries the
\* current time and belongs to process p.
GrantedKeptOrNew(ls, p) ==
    \A i \in 1..Len(ls) :
        ls[i].status = "G"
            => \/ \E j \in 1..Len(state_file) : state_file[j] = ls[i]
               \/ ls[i].id = p /\ ls[i].time = now

\* C21: an acquire critical section that finds the caller's Pending entry of
\* the requested mode is not rejected and leaves that entry with the current
\* time, Granted when the answer is "granted" and Pending otherwise; it leaves
\* the state file as it was exactly when nothing changed (no reap, no grant,
\* no new time); and no critical section gives a Granted line a new time: a
\* Granted line it leaves was there before, or is the line of a request
\* granted now.
C21_Renewal ==
    \A p \in Procs :
        /\ FindsOwnPending(p)
            => LET out == CriticalOutcome(p)
                   k   == FoundSlot(p)
               IN /\ out.result \in {0, 1}
                  /\ k <= Len(out.lines)
                  /\ out.lines[k] = [id     |-> p,
                                     mode   |-> op[p],
                                     status |-> IF out.result = 1 THEN "G" ELSE "P",
                                     time   |-> now]
                  /\ out.lines # state_file <=> SomethingChanges(p)
        /\ pc[p] = "critical"
            => /\ GrantedKeptOrNew(CriticalOutcome(p).lines, p)
               /\ CriticalOutcome(p).result # 1
                    => GrantedKeptOrNew(CriticalOutcome(p).lines, NoProc)

\* A spinning acquire finds its own Pending entry, written at an earlier time,
\* and is not granted: the entry stays Pending and is renewed.
C21_Witness ==
    \E p \in Procs :
        /\ FindsOwnPending(p)
        /\ CriticalOutcome(p).result = 0
        /\ parse_client_states(state_file, now).client_states[FoundSlot(p)].time < now

----------------------------------------------------------------------------
(* C22 *)

\* C22: when exclusive_unlock starts with errno 0 and the call returns after
\* it: if the unlink of lockfile failed (lockfile still links to the caller)
\* the call returns -1 with the errno of that unlink, whatever the unlink of
\* the private file did; if only the unlink of the private file failed (the
\* private file is still there) it returns -1 with the errno of that one.
C22_FirstUnlinkErrorReported ==
    [][\A p \in Procs :
        (pc[p] = "unlock" /\ result[p].errno = "0" /\ pc'[p] = "return")
            => /\ lockfile' = p
                    => result'[p].result = -1 /\ result'[p].errno = "EACCES"
               /\ (lockfile' # p /\ p \in private')
                    => result'[p].result = -1 /\ result'[p].errno = "ENOENT"]_vars

====
